---- MODULE Spec2Model ----
(***************************************************************************)
(* RITIS_Downloader (src/RITIS_API.py): the daily batch download.          *)
(*                                                                         *)
(* Dates are day numbers (strftime/strptime of "%Y-%m-%d" is a bijection   *)
(* between a date and its string, and date + timedelta(days=1) is +1).     *)
(* The watermark file is the pair it holds: a date and a time of day, in   *)
(* seconds.  Time is in seconds; it passes only in time.sleep, an HTTP     *)
(* call or a file operation takes no time.  The clock `now` restarts at 0  *)
(* when the for loop takes a date: the code only uses differences of       *)
(* datetime.now() within one date.                                         *)
(***************************************************************************)
EXTENDS Integers, Sequences, FiniteSets, TLC

\* ---------------------------------------------------------------- bounds
\* Dates are 1..MaxDay; today is at most the day after.
MaxDay == 3
\* The constructor's daily_download_timeout_minutes of the modelled client.
TimeoutMinutes == 6
\* Response bodies of rejected submissions are 1..MaxBody.
MaxBody == 2

\* ------------------------------------------------------ program constants
attempts == 3
cooldown == 300
\* The constructor's sleep_time: the default, and a shorter poll interval.
SleepTimes == {30, 60}

max_time == 60 * TimeoutMinutes

Days == 1..MaxDay
None == [kind |-> "none", text |-> 0]
NoResponse == [status_code |-> 0, text |-> 0, id |-> 0]
States == {"QUEUED", "RUNNING", "SUCCEEDED", "FAILED", "KILLED"}

VARIABLES
    \* ---- the world
    watermark,       \* the last_run file: [date, tod]
    fileWhole,       \* the last_run file holds that line whole (FALSE: truncated)
    today,           \* datetime.now().date()
    tempLeft,        \* a temporary .csv made by this run's materializer remains
    remote,          \* remote job id -> correlation id it was submitted with
    sleep_time,      \* self.sleep_time
    \* ---- daily_download's frame
    pc,              \* where the run is
    date_list, idx,  \* the for loop over date_list
    failed_attempts, job_id, job_uuid, start_time, now,
    err,             \* the exception raised to the caller
    \* ---- _submit_job's frame
    caller,          \* "first" (line 200) or "retry" (line 218)
    i, call_uuid, response,
    \* ---- what the run has done so far (observations, read by no action)
    wmStart, todayStart,  \* what _get_dates read
    wmReads,         \* reads of the last_run file in this run
    materialized,    \* dates whose <date>.parquet this run wrote to download_path
    wmWrites,        \* dates this run wrote to the watermark, in order
    failedDates,     \* dates whose lifecycle ended in a failure in this run
    submittedDates,  \* dates a submit request was sent for in this run
    notDownloaded,   \* dates whose result download got a non-200 response in this run
    sleeps,          \* sleeps of the current _submit_job call, in order
    requests,        \* requests the current _submit_job call sent
    rejected,        \* non-200 responses the current _submit_job call got
    bodies,          \* their bodies, in order, until the call returns
    submitCalls,     \* _submit_job calls for the current date
    nPolls,          \* status polls for the current date
    nDownloads,      \* result downloads for the current date
    pollAt,          \* now - start_time at the date's last status poll
    resubAt,         \* now - start_time at the date's last resubmission request
    writeAt,         \* now - start_time at the date's watermark write
    nRateLimited,    \* status polls of the current date answered RATE_LIMITED
    wmAtDate,        \* the last_run file's content when the date's lifecycle began
    polledId,        \* the job id of the last status request
    downloadedUuid   \* the correlation id of the last results request

world == <<watermark, fileWhole, today, tempLeft, remote, sleep_time>>
frame == <<pc, date_list, idx, failed_attempts, job_id, job_uuid, start_time, now, err>>
callVars == <<caller, i, call_uuid, response>>
runObs == <<wmStart, todayStart, wmReads, materialized, wmWrites, failedDates, submittedDates, notDownloaded>>
runObsRest == <<wmStart, todayStart, wmReads, materialized, failedDates, submittedDates, notDownloaded>>
callObs == <<sleeps, requests, rejected, bodies>>
dateObs == <<submitCalls, nPolls, nDownloads, pollAt, resubAt, writeAt, nRateLimited, wmAtDate, polledId, downloadedUuid>>
vars == <<world, frame, callVars, runObs, callObs, dateObs>>

Stopped == pc \in {"idle", "uptodate", "completed", "raised"}

\* No run is in progress: none was started, the last one returned or
\* raised, or its process was killed.
NotRunning == Stopped \/ pc = "killed"

\* ------------------------------------------------------------ _get_dates
RECURSIVE DateLoop(_, _, _)
DateLoop(last_run, yesterday, acc) ==
    IF last_run <= yesterday
        THEN DateLoop(last_run + 1, yesterday, Append(acc, last_run))
        ELSE acc

\* Variant: yesterday is taken to be two days before today.
get_dates_short(file, day) == DateLoop(file.date, day - 2, <<>>)

\* Variant: the loop starts one day before the stored date.
get_dates_early(file, day) == DateLoop(file.date - 1, day - 1, <<>>)

get_dates(file, day) == DateLoop(file.date, day - 1, <<>>)

\* ----------------------------------------------------------- _submit_job
\* Variant: a linear backoff.
BackoffLinear(n) == 10 * n

BackoffSeconds(n) == 10 * (n * n)

\* Variant: the last attempt is taken to be the one after attempts - 1.
SubmitStopsLate(code, n) == code = 200 \/ n = attempts

SubmitStops(code, n) == code = 200 \/ n = attempts - 1

\* -------------------------------------------------------- daily_download
\* Variant: the while loop has no budget (while True, as single_download's).
WithinBudgetAlways(t, t0) == TRUE

\* Variant: the resubmission of line 218 sets start_time again.
StartsClockOnRetry(c) == c \in {"first", "retry"}

\* Line 203: start_time is set after the submission of line 200 only; lines
\* 218 and 234 are not followed by an assignment to it.
StartsClock(c) == c = "first"

\* Line 206: the while condition.
WithinBudget(t, t0) == t - t0 < max_time

RetryAllowed(n) == n <= 1

\* Variant: line 209 does not test the materializer's result.
TruthyAlways(result) == TRUE

Truthy(result) == result = "True"

\* _check_job_status, lines 131-140: what it returns for a response, or
\* "raise" when it raises.
check_job_status(code, state) ==
    IF code = 200 THEN state
    ELSE IF code = 429 THEN "RATE_LIMITED"
    ELSE "raise"

\* Variant: a rate-limited poll is taken for a failed job.
JobFailedOrLimited(status) == status \in {"KILLED", "FAILED", "RATE_LIMITED"}

\* Line 214.
JobFailed(status) == status \in {"KILLED", "FAILED"}

\* Variant: the poll interval is not slept after the cooldown.
NapCooldownOnly(status) ==
    IF status = "RATE_LIMITED" THEN cooldown ELSE sleep_time

\* Lines 221-224: the seconds slept after a poll that leaves the job pending.
NapAfter(status) ==
    IF status = "RATE_LIMITED" THEN cooldown + sleep_time ELSE sleep_time

\* Variant: the while loop is not left after a SUCCEEDED status.
AfterSucceededPollsOn == "poll"

\* Line 213: break.
AfterSucceeded == "break"

CurDate == date_list[idx]

\* Variant: both entry points read the watermark file.
CallsGetDatesAlways(entry) == TRUE

\* Line 186 is daily_download's; single_download (231-245) has no call of
\* _get_dates.
CallsGetDates(entry) == entry = "daily_download"

\* Variant: a resubmission keeps the correlation id of the failed job.
EnterSubmitSameUuid(c, uuid) ==
    /\ caller' = c
    /\ i' = 0
    /\ call_uuid' = IF c = "retry" THEN call_uuid ELSE uuid
    /\ response' = NoResponse
    /\ sleeps' = <<>>
    /\ requests' = 0
    /\ rejected' = 0
    /\ bodies' = <<>>
    /\ submitCalls' = IF c = "first" THEN 1 ELSE submitCalls + 1

\* Line 78 and the loop's start: a fresh correlation id, attempt 0.
EnterSubmit(c, uuid) ==
    /\ caller' = c
    /\ i' = 0
    /\ call_uuid' = uuid
    /\ response' = NoResponse
    /\ sleeps' = <<>>
    /\ requests' = 0
    /\ rejected' = 0
    /\ bodies' = <<>>
    /\ submitCalls' = IF c = "first" THEN 1 ELSE submitCalls + 1

\* The for loop takes its k-th date (lines 192-200), or is exhausted (228).
ForDate(list, k, uuid) ==
    /\ idx' = k
    /\ IF k > Len(list)
          THEN /\ pc' = "completed"
               /\ UNCHANGED <<failed_attempts, now, callVars, callObs, dateObs>>
          ELSE /\ pc' = "submit"
               /\ failed_attempts' = 0
               /\ now' = 0
               /\ EnterSubmit("first", uuid)
               /\ nPolls' = 0
               /\ nDownloads' = 0
               /\ pollAt' = -1
               /\ resubAt' = -1
               /\ writeAt' = -1
               /\ nRateLimited' = 0
               /\ wmAtDate' = watermark
               /\ polledId' = 0
               /\ downloadedUuid' = 0

Raise(kind, text) ==
    /\ pc' = "raised"
    /\ err' = [kind |-> kind, text |-> text]
    /\ failedDates' = IF caller = "single" THEN failedDates
                      ELSE failedDates \cup {CurDate}

\* The watermark file holds a date at 00:00:00, the time of day line 212
\* writes; the date may be any day, today or later included.
Init ==
    /\ watermark \in [date : Days, tod : {0}]
    /\ fileWhole = TRUE
    /\ today \in 1..(MaxDay + 1)
    /\ sleep_time \in SleepTimes
    /\ tempLeft = FALSE
    /\ remote = <<>>
    /\ pc = "idle"
    /\ date_list = <<>>
    /\ idx = 0
    /\ failed_attempts = 0
    /\ job_id = 0
    /\ job_uuid = 0
    /\ start_time = 0
    /\ now = 0
    /\ err = None
    /\ caller = "first"
    /\ i = 0
    /\ call_uuid = 0
    /\ response = NoResponse
    /\ wmStart = 0
    /\ wmReads = 0
    /\ todayStart = 0
    /\ materialized = {}
    /\ wmWrites = <<>>
    /\ failedDates = {}
    /\ submittedDates = {}
    /\ notDownloaded = {}
    /\ sleeps = <<>>
    /\ requests = 0
    /\ rejected = 0
    /\ bodies = <<>>
    /\ submitCalls = 0
    /\ nPolls = 0
    /\ nDownloads = 0
    /\ pollAt = -1
    /\ resubAt = -1
    /\ writeAt = -1
    /\ nRateLimited = 0
    /\ wmAtDate = watermark
    /\ polledId = 0
    /\ downloadedUuid = 0

\* The calendar day changes between two runs.
NextDay ==
    /\ NotRunning
    /\ today < MaxDay + 1
    /\ today' = today + 1
    /\ UNCHANGED <<watermark, fileWhole, tempLeft, remote, sleep_time>>
    /\ UNCHANGED <<frame, callVars, runObs, callObs, dateObs>>

\* single_download, lines 231-234: the job name is sanitized and the job
\* submitted; no date list is made.
SingleStart ==
    /\ NotRunning
    /\ pc' = "submit"
    /\ caller' = "single"
    /\ call_uuid' = 1
    /\ submitCalls' = 1
    /\ wmReads' = IF CallsGetDates("single_download") THEN 1 ELSE 0
    /\ wmAtDate' = watermark
    /\ polledId' = 0
    /\ downloadedUuid' = 0
    /\ date_list' = <<>>
    /\ idx' = 0
    /\ failed_attempts' = 0
    /\ job_id' = 0
    /\ job_uuid' = 0
    /\ start_time' = 0
    /\ now' = 0
    /\ err' = None
    /\ i' = 0
    /\ response' = NoResponse
    /\ wmStart' = 0
    /\ todayStart' = 0
    /\ materialized' = {}
    /\ wmWrites' = <<>>
    /\ failedDates' = {}
    /\ submittedDates' = {}
    /\ notDownloaded' = {}
    /\ sleeps' = <<>>
    /\ requests' = 0
    /\ rejected' = 0
    /\ bodies' = <<>>
    /\ nPolls' = 0
    /\ nDownloads' = 0
    /\ pollAt' = -1
    /\ resubAt' = -1
    /\ writeAt' = -1
    /\ nRateLimited' = 0
    /\ tempLeft' = FALSE
    /\ remote' = <<>>
    /\ UNCHANGED <<watermark, fileWhole, today, sleep_time>>

\* single_download, lines 236-238: the first pass of its while loop.  The
\* status is the str _check_job_status returns, and line 238 indexes it
\* with ['state'], which raises TypeError whatever the state is.
SinglePoll(code, state) ==
    /\ pc = "spoll"
    /\ nPolls' = nPolls + 1
    /\ LET status == check_job_status(code, state) IN
       IF status = "raise"
          THEN Raise("StatusFailed", 0)
          ELSE Raise("TypeError", 0)
    /\ UNCHANGED <<world, date_list, idx, failed_attempts, job_id, job_uuid, start_time, now>>
    /\ UNCHANGED <<callVars, callObs>>
    /\ UNCHANGED <<wmStart, todayStart, wmReads, materialized, wmWrites, submittedDates, notDownloaded>>
    /\ UNCHANGED <<submitCalls, nDownloads, pollAt, resubAt, writeAt, nRateLimited, wmAtDate, downloadedUuid>>
    /\ polledId' = job_id

\* daily_download, lines 185-200: _get_dates, then the first date's submission.
Start ==
    /\ NotRunning
    /\ date_list' = IF fileWhole THEN get_dates(watermark, today) ELSE <<>>
    /\ wmStart' = watermark.date
    /\ wmReads' = IF CallsGetDates("daily_download") THEN 1 ELSE 0
    /\ todayStart' = today
    /\ materialized' = {}
    /\ wmWrites' = <<>>
    /\ failedDates' = {}
    /\ submittedDates' = {}
    /\ notDownloaded' = {}
    \* lines 173, 181-182: strptime of a truncated line raises
    /\ err' = IF fileWhole THEN None ELSE [kind |-> "GetDatesFailed", text |-> 0]
    /\ remote' = <<>>
    /\ IF date_list' = <<>>
          THEN /\ pc' = IF fileWhole THEN "uptodate" ELSE "raised"
               /\ idx' = 0
               /\ failed_attempts' = 0
               /\ now' = 0
               /\ caller' = "first"
               /\ i' = 0
               /\ call_uuid' = 0
               /\ response' = NoResponse
               /\ sleeps' = <<>>
               /\ requests' = 0
               /\ rejected' = 0
               /\ bodies' = <<>>
               /\ submitCalls' = 0
               /\ nPolls' = 0
               /\ nDownloads' = 0
               /\ pollAt' = -1
               /\ resubAt' = -1
               /\ writeAt' = -1
               /\ nRateLimited' = 0
               /\ wmAtDate' = watermark
               /\ polledId' = 0
               /\ downloadedUuid' = 0
          ELSE ForDate(date_list', 1, 1)
    /\ tempLeft' = FALSE
    /\ job_id' = 0
    /\ job_uuid' = 0
    /\ start_time' = 0
    /\ UNCHANGED <<watermark, fileWhole, today, sleep_time>>

\* One pass of _submit_job's loop (lines 111-118) and, when the loop ends,
\* lines 120-127 and the caller's next statements (203-204, or 224, or 235
\* in single_download).
\* The remote service numbers its jobs from 1, so that the job id of a 200
\* response is truthy at line 202.
SubmitAttempt(code, text) ==
    /\ pc = "submit"
    /\ LET sleep == BackoffSeconds(i)
           sent == now + sleep
           newId == Len(remote) + 1
       IN
       /\ sleeps' = Append(sleeps, sleep)
       /\ requests' = requests + 1
       /\ submittedDates' = IF caller = "single" THEN submittedDates
                             ELSE submittedDates \cup {CurDate}
       /\ resubAt' = IF caller = "retry" THEN sent - start_time ELSE resubAt
       /\ response' = [status_code |-> code,
                       text |-> IF code = 200 THEN 0 ELSE text,
                       id |-> IF code = 200 THEN newId ELSE 0]
       /\ rejected' = IF code = 200 THEN rejected ELSE rejected + 1
       /\ bodies' = IF code = 200 THEN <<>> ELSE Append(bodies, text)
       /\ IF ~SubmitStops(code, i)
             THEN /\ i' = i + 1
                  /\ now' = sent
                  /\ UNCHANGED <<pc, err, failedDates, job_id, job_uuid, start_time, remote>>
             ELSE IF code = 200
             THEN /\ job_id' = newId
                  /\ job_uuid' = call_uuid
                  /\ remote' = Append(remote, call_uuid)
                  /\ pc' = IF caller = "single" THEN "spoll" ELSE "poll"
                  /\ now' = IF caller = "retry" THEN sent + sleep_time ELSE sent
                  /\ start_time' = IF StartsClock(caller) THEN sent ELSE start_time
                  /\ UNCHANGED <<i, err, failedDates>>
             ELSE /\ Raise("SubmissionFailed", text)
                  /\ now' = sent
                  /\ UNCHANGED <<i, job_id, job_uuid, start_time, remote>>
    /\ UNCHANGED <<watermark, fileWhole, today, tempLeft, sleep_time>>
    /\ UNCHANGED <<date_list, idx, failed_attempts, caller, call_uuid>>
    /\ UNCHANGED <<wmStart, todayStart, wmReads, materialized, wmWrites, notDownloaded>>
    /\ UNCHANGED <<submitCalls, nPolls, nDownloads, pollAt, writeAt, nRateLimited, wmAtDate, polledId, downloadedUuid>>

\* The while condition is false: the else clause, line 226.
Timeout ==
    /\ pc = "poll"
    /\ ~WithinBudget(now, start_time)
    /\ Raise("Timeout", 0)
    /\ UNCHANGED <<world, date_list, idx, failed_attempts, job_id, job_uuid, start_time, now>>
    /\ UNCHANGED <<callVars, callObs, dateObs>>
    /\ UNCHANGED <<wmStart, todayStart, wmReads, materialized, wmWrites, submittedDates, notDownloaded>>

\* One pass of the while loop, lines 206-224, up to the download: the status
\* check answers HTTP code `code`, and `state` when the code is 200.
CheckStatus(code, state) ==
    /\ pc = "poll"
    /\ WithinBudget(now, start_time)
    /\ nPolls' = nPolls + 1
    /\ pollAt' = now - start_time
    /\ UNCHANGED <<nDownloads, resubAt, writeAt, wmAtDate, downloadedUuid>>
    /\ polledId' = job_id
    /\ LET status == check_job_status(code, state) IN
       /\ nRateLimited' = IF status = "RATE_LIMITED" THEN nRateLimited + 1
                          ELSE nRateLimited
       /\ IF status = "raise"
             THEN /\ Raise("StatusFailed", 0)
                  /\ UNCHANGED <<failed_attempts, now, callVars, callObs, submitCalls>>
          ELSE IF status = "SUCCEEDED"
             THEN /\ pc' = "download"
                  /\ UNCHANGED <<failed_attempts, now, err, failedDates, callVars, callObs, submitCalls>>
          ELSE IF JobFailed(status)
             THEN /\ failed_attempts' = failed_attempts + 1
                  /\ IF RetryAllowed(failed_attempts')
                        THEN /\ pc' = "submit"
                             /\ EnterSubmit("retry", call_uuid + 1)
                             /\ UNCHANGED <<now, err, failedDates>>
                        \* line 220: status is a str, status['state'] raises
                        \* TypeError while the message is being built
                        ELSE /\ Raise("TypeError", 0)
                             /\ UNCHANGED <<now, callVars, callObs, submitCalls>>
             ELSE /\ now' = now + NapAfter(status)
                  /\ UNCHANGED <<pc, failed_attempts, err, failedDates, callVars, callObs, submitCalls>>
    /\ UNCHANGED <<world, date_list, idx, job_id, job_uuid, start_time>>
    /\ UNCHANGED <<wmStart, todayStart, wmReads, materialized, wmWrites, submittedDates, notDownloaded>>

\* _download_and_process_job_results(job_uuid, job_name), lines 142-163, and
\* the test of its result at line 209.
Download(code, zipOk, convOk) ==
    /\ pc = "download"
    /\ nDownloads' = nDownloads + 1
    /\ downloadedUuid' = job_uuid
    /\ LET result == IF code = 200 THEN "True" ELSE "None" IN
       IF code = 200 /\ ~zipOk
          THEN \* lines 147-150 raise inside the with block: the delete=False
               \* temporary file is never unlinked
               /\ Raise("BadZip", 0)
               /\ tempLeft' = TRUE
               /\ UNCHANGED <<materialized, idx, failed_attempts, now>>
               /\ UNCHANGED <<callVars, callObs, submitCalls, nPolls, pollAt, resubAt, writeAt, nRateLimited, wmAtDate, polledId>>
       ELSE IF code = 200 /\ ~convOk
          THEN /\ Raise("ConversionFailed", 0)
               /\ tempLeft' = FALSE
               /\ UNCHANGED <<materialized, idx, failed_attempts, now>>
               /\ UNCHANGED <<callVars, callObs, submitCalls, nPolls, pollAt, resubAt, writeAt, nRateLimited, wmAtDate, polledId>>
       ELSE /\ tempLeft' = (IF code = 200 THEN FALSE ELSE tempLeft)
            /\ materialized' = IF code = 200 THEN materialized \cup {CurDate} ELSE materialized
            /\ pc' = IF Truthy(result) THEN "advance" ELSE AfterSucceeded
            /\ failedDates' = IF code = 200 THEN failedDates
                              ELSE failedDates \cup {CurDate}
            /\ UNCHANGED <<err, idx, failed_attempts, now>>
            /\ UNCHANGED <<callVars, callObs, submitCalls, nPolls, pollAt, resubAt, writeAt, nRateLimited, wmAtDate, polledId>>
    /\ UNCHANGED <<watermark, fileWhole, today, remote, sleep_time>>
    /\ UNCHANGED <<date_list, job_id, job_uuid, start_time>>
    /\ notDownloaded' = IF code = 200 THEN notDownloaded ELSE notDownloaded \cup {CurDate}
    /\ UNCHANGED <<wmStart, todayStart, wmReads, wmWrites, submittedDates>>

\* Line 211: open(self.last_run, 'w') truncates the file.
OpenLastRun ==
    /\ pc = "advance"
    /\ pc' = "write"
    /\ fileWhole' = FALSE
    /\ UNCHANGED <<watermark, today, tempLeft, remote, sleep_time>>
    /\ UNCHANGED <<date_list, idx, failed_attempts, job_id, job_uuid, start_time, now, err>>
    /\ UNCHANGED <<callVars, runObs, callObs, dateObs>>

\* The process is killed around the watermark write: before line 211,
\* between the truncation and the end of the with block, or after it.
\* (Killed anywhere else, it leaves the file as it was.)
Crash ==
    /\ pc \in {"advance", "write", "break"}
    /\ pc' = "killed"
    /\ UNCHANGED <<world, date_list, idx, failed_attempts, job_id, job_uuid, start_time, now, err>>
    /\ UNCHANGED <<callVars, runObs, callObs, dateObs>>

\* Line 212 and the end of the with block: the line is written and the
\* file closed.
Advance ==
    /\ pc = "write"
    /\ watermark' = [date |-> CurDate, tod |-> 0]
    /\ fileWhole' = TRUE
    /\ wmWrites' = Append(wmWrites, CurDate)
    /\ writeAt' = now - start_time
    /\ pc' = AfterSucceeded
    /\ UNCHANGED <<today, tempLeft, remote, sleep_time>>
    /\ UNCHANGED <<date_list, idx, failed_attempts, job_id, job_uuid, start_time, now, err>>
    /\ UNCHANGED <<callVars, callObs, runObsRest>>
    /\ UNCHANGED <<submitCalls, nPolls, nDownloads, pollAt, resubAt, nRateLimited, wmAtDate, polledId, downloadedUuid>>

\* Line 213: break; the for loop takes the next date or ends (line 228).
LoopNext ==
    /\ pc = "break"
    /\ ForDate(date_list, idx + 1, call_uuid + 1)
    /\ UNCHANGED <<world, date_list, job_id, job_uuid, start_time, err, runObs>>

Next ==
    \/ NextDay
    \/ Start
    \/ SingleStart
    \/ \E code \in {200, 500}, text \in 1..MaxBody : SubmitAttempt(code, text)
    \/ Timeout
    \/ \E code \in {200, 429, 500}, state \in States : SinglePoll(code, state)
    \/ \E code \in {200, 429, 500}, state \in States : CheckStatus(code, state)
    \/ \E code \in {200, 500}, zipOk \in BOOLEAN, convOk \in BOOLEAN :
          Download(code, zipOk, convOk)
    \/ OpenLastRun
    \/ Crash
    \/ Advance
    \/ LoopNext

Spec == Init /\ [][Next]_vars

\* A step of a date's lifecycle in daily_download: a submission attempt, a
\* pass of the while loop, its else clause, or the download.
LifecycleStep ==
    \/ \E code \in {200, 500}, text \in 1..MaxBody : SubmitAttempt(code, text)
    \/ Timeout
    \/ \E code \in {200, 429, 500}, state \in States : CheckStatus(code, state)
    \/ \E code \in {200, 500}, zipOk \in BOOLEAN, convOk \in BOOLEAN :
          Download(code, zipOk, convOk)

\* daily_download started with one or two dates to process, and run again
\* once it has ended; the process is not killed.
LiveInit == Init /\ today \in {watermark.date + 1, watermark.date + 2}

LiveNext ==
    \/ Start
    \/ LifecycleStep
    \/ OpenLastRun
    \/ Advance
    \/ LoopNext

\* Every HTTP call returns and every sleep ends: a lifecycle that can take a
\* step takes one.
FairSpec == LiveInit /\ [][LiveNext]_vars /\ WF_vars(LifecycleStep)

\* ====================================================================
\* Properties
\* ====================================================================

\* The dates _get_dates would return if the stored date were excluded.
DatesAfter(from, to) == [k \in 1..(IF to > from THEN to - from ELSE 0) |-> from + k]

\* Seconds since day 0 of a watermark file's content.
Stamp(w) == w.date * 86400 + w.tod

\* C1: once this run has written the watermark, every date after the
\* watermark read at batch start and up to the watermark now stored has had
\* its result materialized by this run: no date is skipped by an advance.
C1_NoSkippedDate ==
    wmWrites # <<>> =>
        \A d \in Days : (wmStart < d /\ d <= watermark.date) => d \in materialized

\* C2: when the lifecycle of date D has ended in a failure, no submit
\* request is sent for a date after D in the same run.
C2_FailFast ==
    \A d \in failedDates : \A e \in submittedDates : e <= d

\* C3: _get_dates returns exactly the dates after the stored watermark date
\* up to yesterday, ascending: the watermark date itself is excluded, and
\* the list is empty when the watermark date is yesterday.
C3_PendingDatesExclusive ==
    pc # "idle" => date_list = DatesAfter(wmStart, todayStart - 1)

\* C4: every date this run wrote to the watermark is a date whose result
\* artifact this run had written before; the write at line 212 is only
\* reached with the artifact of the current date written.
C4_WriteAfterMaterialize ==
    /\ \A k \in 1..Len(wmWrites) : wmWrites[k] \in materialized
    /\ pc = "advance" => CurDate \in materialized

\* C4 witness: a run has written the watermark for a date.
C4_Witness == wmWrites # <<>> /\ pc = "break"

\* C5: the stored watermark timestamp never decreases, in any step of any
\* sequence of runs.
C5_WatermarkMonotonic == [][Stamp(watermark') >= Stamp(watermark)]_vars

\* C5 witness: a run has written the watermark twice, ending beyond the
\* date it read, which was not the first day.
C5_Witness ==
    /\ Len(wmWrites) >= 2
    /\ watermark.date > wmStart
    /\ wmStart > 1

\* The dates of a sequence of dates.
Range(seq) == {seq[k] : k \in 1..Len(seq)}

\* C6: the first FAILED or KILLED status of a date is followed by exactly
\* one resubmission; the second one by no further submission, and the
\* date's lifecycle ends with a job-failed error raised to the caller.
C6_ResubmitOnceThenJobFailed ==
    /\ failed_attempts = 0 => submitCalls <= 1
    /\ failed_attempts >= 1 => submitCalls = 2
    /\ failed_attempts >= 2 => (pc = "raised" /\ err.kind = "JobFailed")

\* C7: when a result download got a non-200 response, daily_download does
\* not return normally but ends with an error raised to its caller, and the
\* watermark is not written for that date.
C7_DownloadFailureRaises ==
    /\ (notDownloaded # {} /\ Stopped) => pc = "raised"
    /\ notDownloaded \cap Range(wmWrites) = {}

\* C8: no status poll, no resubmission request and no watermark write of a
\* date happens once the timeout budget has elapsed since start_time, and a
\* lifecycle that has polled and ends with the budget elapsed ends with the
\* timeout error.
C8_HardStop ==
    /\ pollAt < max_time
    /\ resubAt < max_time
    /\ writeAt < max_time
    /\ (pc = "raised" /\ nPolls > 0 /\ now - start_time >= max_time)
           => err.kind = "Timeout"

\* C9: a _submit_job call sleeps 10 * k^2 seconds before its attempt k
\* (0, 10, 40 for the three attempts), sends at most `attempts` requests,
\* sends none after a 200 response, and returns the handle of the 200
\* response (remote job id, correlation id of the call), also when two
\* rejected responses came first.
C9_SubmitBackoff ==
    /\ requests <= attempts
    /\ Len(sleeps) = requests
    /\ \A k \in 1..Len(sleeps) : sleeps[k] = 10 * (k - 1) * (k - 1)
    /\ \A k \in 1..Len(sleeps) : sleeps[k] = <<0, 10, 40>>[k]
    /\ requests - rejected \in {0, 1}
    /\ requests - rejected = 1 =>
          /\ pc # "submit"
          /\ response.status_code = 200
          /\ job_id = response.id
          /\ job_id # 0
          /\ job_uuid = call_uuid
          /\ remote[job_id] = call_uuid

\* C9 witness: two rejected responses, then a 200: the handle is returned
\* after sleeps of 0, 10 and 40 seconds.
C9_Witness ==
    /\ rejected = 2
    /\ requests = 3
    /\ sleeps = <<0, 10, 40>>
    /\ response.status_code = 200
    /\ pc = "poll"
    /\ job_uuid = call_uuid

\* C10: when every allowed attempt of a _submit_job call got a non-200
\* response, the run has ended with the submission error that carries the
\* body of the last response, the call has returned no handle (no remote
\* job holds its correlation id, the caller's handle is not of this call),
\* and, for a date's first submission, the date has had no status poll and
\* no result download.
C10_SubmissionError ==
    rejected = attempts =>
        /\ pc = "raised"
        /\ requests = attempts
        /\ err = [kind |-> "SubmissionFailed", text |-> bodies[Len(bodies)]]
        /\ job_uuid # call_uuid
        /\ \A j \in 1..Len(remote) : remote[j] # call_uuid
        /\ caller = "first" => (nPolls = 0 /\ nDownloads = 0)

\* C10 witness: a date's first submission is rejected three times, the
\* last body differing from the earlier ones.
C10_Witness ==
    /\ rejected = attempts
    /\ caller = "first"
    /\ bodies = <<1, 1, 2>>
    /\ err.text = 2
    /\ pc = "raised"

\* C11: a status poll answered RATE_LIMITED changes neither the
\* failed-attempts count nor the job handle, starts no _submit_job call and
\* sends no submit request; polling goes on, on the same remote job.
C11_RateLimitedIsFree ==
    [][nRateLimited' = nRateLimited + 1 =>
          /\ failed_attempts' = failed_attempts
          /\ job_id' = job_id
          /\ job_uuid' = job_uuid
          /\ submitCalls' = submitCalls
          /\ requests' = requests
          /\ submittedDates' = submittedDates
          /\ pc' = "poll"]_vars

\* C11 witness: after a RATE_LIMITED poll the same job has been polled
\* again, with no failed attempt counted and one _submit_job call made.
C11_Witness ==
    /\ nRateLimited >= 1
    /\ nPolls > nRateLimited
    /\ failed_attempts = 0
    /\ submitCalls = 1
    /\ pc = "poll"

\* C12: a run that had pending dates, in which no lifecycle ended in a
\* failure, and that has stopped, has returned normally: the watermark is
\* yesterday at 00:00:00 and every date after the watermark read at batch
\* start, up to yesterday, has its artifact.
C12_AllSucceedCompletes ==
    (Stopped /\ submittedDates # {} /\ failedDates = {}) =>
        /\ pc = "completed"
        /\ err = None
        /\ watermark = [date |-> todayStart - 1, tod |-> 0]
        /\ \A d \in Days : (wmStart < d /\ d <= todayStart - 1) => d \in materialized

\* C12 witness: watermark day 1, today day 4: the run has completed with
\* the watermark at day 3 and the artifacts of days 2 and 3 written.
C12_Witness ==
    /\ pc = "completed"
    /\ failedDates = {}
    /\ wmStart = 1
    /\ todayStart = 4
    /\ watermark.date = 3
    /\ {2, 3} \subseteq materialized

\* C13: when a date's lifecycle has ended in a raised error the last_run
\* file holds what it held when that lifecycle began; a run reads the file
\* once, and writes it at most once for a date.
C13_WatermarkFrame ==
    /\ (pc = "raised" /\ date_list # <<>>) =>
          (watermark = wmAtDate /\ CurDate \notin Range(wmWrites))
    /\ wmReads <= 1
    /\ \A a, b \in 1..Len(wmWrites) : wmWrites[a] = wmWrites[b] => a = b

\* C13 witness: the second date of a run has timed out after the first
\* date's watermark write; the file still holds the first date.
C13_Witness ==
    /\ pc = "raised"
    /\ err.kind = "Timeout"
    /\ idx = 2
    /\ Len(wmWrites) = 1
    /\ watermark.date = date_list[1]
    /\ wmReads = 1

\* C14: after every call of _download_and_process_job_results, however it
\* ended, no temporary file made by the call remains.
C14_TempFileRemoved ==
    nDownloads > 0 => ~tempLeft

\* C15: whenever the process has been killed the last_run file holds a
\* whole line, the old one or the new one, and no later run fails to
\* compute its dates from the file.
C15_CrashSafeWatermark ==
    /\ pc = "killed" => fileWhole
    /\ err.kind # "GetDatesFailed"

\* C17 as stated: after a RATE_LIMITED status the wait before the next
\* status poll is the 300 s cooldown only.
C17_CooldownOnly ==
    [][nRateLimited' = nRateLimited + 1 => now' - now = cooldown]_vars

\* C17 amended: after a RATE_LIMITED status the wait before the next
\* status poll is the 300 s cooldown followed by the poll interval; after
\* any other status that keeps polling it is the poll interval alone.
C17_CooldownThenPollInterval ==
    [][/\ nRateLimited' = nRateLimited + 1 => now' - now = cooldown + sleep_time
       /\ (pc = "poll" /\ pc' = "poll" /\ nPolls' = nPolls + 1
              /\ nRateLimited' = nRateLimited) => now' - now = sleep_time]_vars

C17_Witness ==
    /\ pc = "poll" /\ nPolls = 2 /\ nRateLimited = 1
    /\ now - start_time = cooldown + sleep_time + sleep_time

\* C16: from its first statement on, single_download neither reads the
\* watermark file nor changes it, whatever the submission responses and
\* the job statuses are.
C16_SingleLeavesWatermark ==
    [][caller' = "single" =>
          /\ wmReads' = 0
          /\ watermark' = watermark
          /\ fileWhole' = fileWhole
          /\ wmWrites' = <<>>]_vars

C16_Witness ==
    /\ caller = "single" /\ pc = "raised" /\ nPolls = 1 /\ requests = 2
    /\ wmReads = 0 /\ watermark = wmAtDate

\* C18: single_download does not end in the TypeError of line 238: a
\* polled status is handled (download, return, or sleep and poll again).
C18_SingleHandlesStatus ==
    caller = "single" => err.kind # "TypeError"

\* C20: while a job is polled, downloaded or recorded, the held job id and
\* correlation id come from one submission; the results request carries the
\* correlation id of the job whose status was just asked; no two submitted
\* jobs share a correlation id; a resubmission replaces the job id and the
\* correlation id together; and the requests of one _submit_job call all
\* carry the call's one correlation id.
C20_CorrelationId ==
    /\ [](/\ pc \in {"poll", "spoll", "download", "advance", "write", "break"} =>
               /\ job_id \in 1..Len(remote)
               /\ remote[job_id] = job_uuid
          /\ nDownloads > 0 => (polledId = job_id /\ downloadedUuid = remote[polledId])
          /\ \A a, b \in 1..Len(remote) : remote[a] = remote[b] => a = b
          /\ (pc = "submit" /\ caller = "retry") =>
                \A a \in 1..Len(remote) : remote[a] # call_uuid)
    /\ [][/\ (job_id' # job_id /\ job_id' # 0) =>
                (job_uuid' # job_uuid /\ job_uuid' = call_uuid /\ remote'[job_id'] = job_uuid')
          /\ requests' = requests + 1 => call_uuid' = call_uuid]_vars

C20_Witness ==
    /\ pc = "advance" /\ failed_attempts = 1 /\ Len(remote) = 2
    /\ job_id = 2 /\ polledId = 2 /\ downloadedUuid = remote[2]
    /\ requests = 2 /\ remote[1] # remote[2]

\* C19: a date's lifecycle in daily_download makes its k-th status poll only
\* while (k - 1) poll intervals fit in the budget, and, every HTTP call
\* returning and every sleep ending, it comes to an outcome: the download
\* has answered (watermark write or break next), or an error is raised.
C19_LifecycleEnds ==
    /\ [](nPolls > 0 => (nPolls - 1) * sleep_time < max_time)
    /\ (pc \in {"submit", "poll", "download"} /\ caller # "single")
          ~> pc \in {"advance", "break", "raised"}

C19_Witness ==
    /\ pc = "raised" /\ err.kind = "Timeout" /\ nPolls * sleep_time >= max_time
    /\ failed_attempts = 1 /\ nRateLimited = 0

\* C21: every status poll of a date is made less than max_time after
\* start_time, and start_time, set when the date's first submission has
\* succeeded, is left alone by a resubmission and its backoff sleeps.
C21_ClockNotRestarted ==
    /\ [](caller # "single" => pollAt < max_time)
    /\ [][(pc = "submit" /\ caller = "retry") => start_time' = start_time]_vars

C21_Witness ==
    /\ pc = "raised" /\ err.kind = "Timeout" /\ failed_attempts = 1
    /\ resubAt > 0 /\ pollAt > resubAt
    /\ now - start_time >= max_time
    /\ now - (start_time + resubAt) < max_time

====
